---- MODULE Spec2Model ----
(***************************************************************************)
(* Model of scripts/advanced-security-generator.py, class                  *)
(* SecurityGenerator: the generation routines (generate_password,          *)
(* generate_secure_hex, generate_secure_base64, generate_secure_string,    *)
(* generate_api_key, generate_jwt_secret, generate_webhook_secret) and the *)
(* analysis routines (calculate_entropy, validate_strength).               *)
(*                                                                         *)
(* A Python str is a sequence of one-character strings.  Every routine is  *)
(* an operator that takes its arguments and the values the random source   *)
(* hands it, and yields either Ok(value) or Raise(exception name).  One    *)
(* action per public routine calls it with arguments and random draws      *)
(* taken from bounded sets and records the outcome.                        *)
(***************************************************************************)
EXTENDS Integers, Sequences, FiniteSets, TLC

VARIABLES pc, op, args, drawn_length, result, report

vars == <<pc, op, args, drawn_length, result, report>>

(***************************************************************************)
(* Bounds of the model.                                                    *)
(***************************************************************************)
\* largest min_length / max_length of a password policy
MaxLength == 3
\* largest length asked of the token generators (hex, base64)
MaxTokenLen == 4
\* largest length asked of generate_api_key / generate_secure_string
MaxKeyLen == 4
\* longest enumerated secret handed to the analysis routines
MaxSecretLen == 3

\* the characters the random source is sampled over: secrets.choice yields
\* only members of its argument that belong to this sample
SampleChars == {"a", "q", "L", "Z", "1", "2", "=", "~"}

\* the byte values secrets.token_bytes is sampled over
\* (248 = 0xF8 encodes to a leading '-', 255 = 0xFF to a leading '_')
SampleBytes == {0, 65, 248, 255}

(***************************************************************************)
(* Python's string module and the alphabets of base64 / hex.               *)
(***************************************************************************)
ascii_lowercase == <<
    "a", "b", "c", "d", "e", "f", "g", "h", "i", "j", "k", "l", "m", "n",
    "o", "p", "q", "r", "s", "t", "u", "v", "w", "x", "y", "z" >>

ascii_uppercase == <<
    "A", "B", "C", "D", "E", "F", "G", "H", "I", "J", "K", "L", "M", "N",
    "O", "P", "Q", "R", "S", "T", "U", "V", "W", "X", "Y", "Z" >>

string_digits == <<
    "0", "1", "2", "3", "4", "5", "6", "7", "8", "9" >>

\* the character U+0060, which a TLA+ string literal cannot hold
GraveAccent == "grave"

punctuation == <<
    "!", "\"", "#", "$", "%", "&", "'", "(", ")", "*", "+", ",", "-", ".",
    "/", ":", ";", "<", "=", ">", "?", "@", "[", "\\", "]", "^", "_", GraveAccent,
    "{", "|", "}", "~" >>

ascii_letters == ascii_lowercase \o ascii_uppercase

urlsafe_alphabet == <<
    "A", "B", "C", "D", "E", "F", "G", "H", "I", "J", "K", "L", "M", "N",
    "O", "P", "Q", "R", "S", "T", "U", "V", "W", "X", "Y", "Z", "a", "b",
    "c", "d", "e", "f", "g", "h", "i", "j", "k", "l", "m", "n", "o", "p",
    "q", "r", "s", "t", "u", "v", "w", "x", "y", "z", "0", "1", "2", "3",
    "4", "5", "6", "7", "8", "9", "-", "_" >>

hex_digits == <<
    "0", "1", "2", "3", "4", "5", "6", "7", "8", "9", "a", "b", "c", "d",
    "e", "f" >>

(***************************************************************************)
(* Helpers on sequences.                                                   *)
(***************************************************************************)
Elems(s) == {s[i] : i \in 1..Len(s)}

Max(a, b) == IF a >= b THEN a ELSE b

Min(a, b) == IF a <= b THEN a ELSE b

\* s[:n] for n >= 0
Prefix(s, n) == SubSeq(s, 1, Min(n, Len(s)))

\* s.replace(c, '') for a one-character c
RECURSIVE Remove(_, _)
Remove(s, c) ==
    IF s = <<>> THEN <<>>
    ELSE IF Head(s) = c THEN Remove(Tail(s), c)
    ELSE <<Head(s)>> \o Remove(Tail(s), c)

\* s.rstrip(c)
RECURSIVE RStrip(_, _)
RStrip(s, c) ==
    IF s = <<>> THEN <<>>
    ELSE IF s[Len(s)] = c THEN RStrip(SubSeq(s, 1, Len(s) - 1), c)
    ELSE s

(***************************************************************************)
(* Outcome of a call: a returned str or a raised exception.                *)
(***************************************************************************)
Ok(v) == [kind |-> "ok", value |-> v, error |-> "none"]

Raise(e) == [kind |-> "raise", value |-> <<>>, error |-> e]

NoResult == [kind |-> "none", value |-> <<>>, error |-> "none"]

(***************************************************************************)
(* The random source (module secrets).  The model hands each routine the   *)
(* values drawn; these operators give the sets they are drawn from.        *)
(***************************************************************************)
\* secrets.choice(seq): any element of seq (sampled)
choice(seq) == Elems(seq) \cap SampleChars

\* secrets.randbelow(n): an int in [0, n); raises ValueError when n <= 0
randbelow(n) == 0 .. (n - 1)

\* secrets.token_bytes(n): n random bytes (sampled)
token_bytes(n) == [1..n -> SampleBytes]

\* secrets.SystemRandom().shuffle(x): x rearranged by a permutation perm
shuffle(x, perm) == [i \in 1..Len(x) |-> x[perm[i]]]

(***************************************************************************)
(* generate_password                                                      *)
(***************************************************************************)
\* the four character sets selected by exclude_ambiguous
lowercase(exclude_ambiguous) ==
    IF exclude_ambiguous
    THEN << "a", "b", "c", "d", "e", "f", "g", "h", "j", "k", "m", "n",
            "p", "q", "r", "s", "t", "u", "v", "w", "x", "y", "z" >>
    ELSE ascii_lowercase

uppercase(exclude_ambiguous) ==
    IF exclude_ambiguous
    THEN << "A", "B", "C", "D", "E", "F", "G", "H", "J", "K", "L", "M",
            "N", "P", "Q", "R", "S", "T", "U", "V", "W", "X", "Y", "Z" >>
    ELSE ascii_uppercase

digits(exclude_ambiguous) ==
    IF exclude_ambiguous
    THEN << "2", "3", "4", "5", "6", "7", "8", "9" >>
    ELSE string_digits

special(exclude_ambiguous) ==
    IF exclude_ambiguous
    THEN << "!", "@", "#", "$", "%", "^", "&", "*", "(", ")", "_", "+",
            "-", "=" >>
    ELSE punctuation

all_chars(exclude_ambiguous) ==
    lowercase(exclude_ambiguous) \o uppercase(exclude_ambiguous)
        \o digits(exclude_ambiguous) \o special(exclude_ambiguous)

\* the required characters, in the order the code appends them;
\* rnd.lower, rnd.upper, rnd.digit, rnd.special are the four draws
required_chars(a, rnd) ==
    (IF a.require_lower THEN <<rnd.lower>> ELSE <<>>)
        \o (IF a.require_upper THEN <<rnd.upper>> ELSE <<>>)
        \o (IF a.require_digits THEN <<rnd.digit>> ELSE <<>>)
        \o (IF a.require_special THEN <<rnd.special>> ELSE <<>>)

\* number of iterations of "for _ in range(n)"
RangeLen(n) == Max(n, 0)

\* remaining_length without the subtraction of the characters already
\* placed
remaining_length_whole(a, rnd) == rnd.below + a.min_length

\* remaining_length, given the value rnd.below returned by randbelow
remaining_length(a, rnd) ==
    rnd.below + a.min_length - Len(required_chars(a, rnd))

\* generate_password with a random source that accepts an empty range
\* [0, 0): only a negative bound raises
generate_password_lax_range(a, rnd) ==
    IF a.max_length - a.min_length + 1 < 0
    THEN Raise("ValueError")
    ELSE LET password_chars ==
                 required_chars(a, rnd)
                     \o Prefix(rnd.fill, RangeLen(remaining_length(a, rnd)))
         IN  Ok(shuffle(password_chars, rnd.perm))

\* generate_password(a) with the draws rnd: rnd.fill holds the draws of the
\* fill loop (one per iteration) and rnd.perm the permutation of the shuffle
generate_password(a, rnd) ==
    IF a.max_length - a.min_length + 1 <= 0
    THEN Raise("ValueError")
    ELSE LET password_chars ==
                 required_chars(a, rnd)
                     \o Prefix(rnd.fill, RangeLen(remaining_length(a, rnd)))
         IN  Ok(shuffle(password_chars, rnd.perm))

(***************************************************************************)
(* Token generators.                                                       *)
(***************************************************************************)
\* bytes.hex(): two hex digits per byte
RECURSIVE hex(_)
hex(b) ==
    IF b = <<>> THEN <<>>
    ELSE <<hex_digits[(Head(b) \div 16) + 1], hex_digits[(Head(b) % 16) + 1]>>
             \o hex(Tail(b))

\* base64.urlsafe_b64encode(b): four characters per three bytes, padded
\* with '=' to a multiple of four
RECURSIVE urlsafe_b64encode(_)
urlsafe_b64encode(b) ==
    IF b = <<>> THEN <<>>
    ELSE IF Len(b) = 1
    THEN <<urlsafe_alphabet[(b[1] \div 4) + 1],
           urlsafe_alphabet[((b[1] % 4) * 16) + 1], "=", "=">>
    ELSE IF Len(b) = 2
    THEN <<urlsafe_alphabet[(b[1] \div 4) + 1],
           urlsafe_alphabet[((b[1] % 4) * 16) + (b[2] \div 16) + 1],
           urlsafe_alphabet[((b[2] % 16) * 4) + 1], "=">>
    ELSE <<urlsafe_alphabet[(b[1] \div 4) + 1],
           urlsafe_alphabet[((b[1] % 4) * 16) + (b[2] \div 16) + 1],
           urlsafe_alphabet[((b[2] % 16) * 4) + (b[3] \div 64) + 1],
           urlsafe_alphabet[(b[3] % 64) + 1]>>
             \o urlsafe_b64encode(SubSeq(b, 4, Len(b)))

\* secrets.token_hex(nbytes), tok being the bytes drawn
token_hex(tok) == hex(tok)

\* secrets.token_urlsafe(nbytes), tok being the bytes drawn
token_urlsafe(tok) == RStrip(urlsafe_b64encode(tok), "=")

\* number of bytes generate_secure_hex asks of the random source
hex_nbytes(length) == length \div 2

\* generate_secure_hex(length), tok being the length // 2 bytes drawn
generate_secure_hex(length, tok) == Ok(token_hex(tok))

\* generate_secure_base64(length), tok being the length bytes drawn
generate_secure_base64(length, tok) ==
    Ok(Remove(Remove(Prefix(token_urlsafe(tok), length), "-"), "_"))

\* generate_jwt_secret(length)
generate_jwt_secret(length, tok) == generate_secure_base64(length, tok)

\* generate_webhook_secret(length)
generate_webhook_secret(length, tok) == generate_secure_base64(length, tok)

\* the charset generate_secure_string draws from
effective_charset(charset_is_none, charset) ==
    IF charset_is_none
    THEN ascii_letters \o string_digits \o punctuation
    ELSE charset

\* generate_secure_string(length, charset), draws holding one draw per
\* iteration; secrets.choice raises IndexError on an empty sequence
generate_secure_string(length, charset_is_none, charset, draws) ==
    IF RangeLen(length) > 0
           /\ effective_charset(charset_is_none, charset) = <<>>
    THEN Raise("IndexError")
    ELSE Ok(Prefix(draws, RangeLen(length)))

\* the length generate_api_key asks of generate_secure_string
key_part_length(length, prefix) == length - Len(prefix) - 1

\* generate_api_key(length, prefix)
generate_api_key(length, prefix, draws) ==
    LET key_part == generate_secure_string(key_part_length(length, prefix),
                        FALSE, ascii_letters \o string_digits, draws)
    IN  IF key_part.kind = "raise" THEN key_part
        ELSE Ok(prefix \o <<"_">> \o key_part.value)

(***************************************************************************)
(* Python numbers.  A number carries its type (int or float) and its       *)
(* value in thousandths.                                                   *)
(***************************************************************************)
Milli == 1000

PyInt(n) == [type |-> "int", milli |-> n * Milli]

PyFloat(m) == [type |-> "float", milli |-> m]

\* the type of x + y, x - y, x * y
Wider(x, y) ==
    IF x.type = "float" \/ y.type = "float" THEN "float" ELSE "int"

Add(x, y) == [type |-> Wider(x, y), milli |-> x.milli + y.milli]

Sub(x, y) == [type |-> Wider(x, y), milli |-> x.milli - y.milli]

Mul(x, y) == [type |-> Wider(x, y), milli |-> (x.milli * y.milli) \div Milli]

\* x / y: true division yields a float, whatever the operands
TrueDiv(x, y) == [type |-> "float", milli |-> (x.milli * Milli) \div y.milli]

\* min(x, y) and max(x, y) return their first argument on a tie
PyMin(x, y) == IF y.milli < x.milli THEN y ELSE x

PyMax(x, y) == IF y.milli > x.milli THEN y ELSE x

\* int.bit_length(); float has no such attribute
HasBitLength(x) == x.type = "int"

RECURSIVE BitLength(_)
BitLength(n) == IF n = 0 THEN 0 ELSE 1 + BitLength(n \div 2)

bit_length(x) == PyInt(BitLength(x.milli \div Milli))

OkNum(x) == [kind |-> "ok", num |-> x, error |-> "none"]

RaiseNum(e) == [kind |-> "raise", num |-> PyFloat(0), error |-> e]

(***************************************************************************)
(* calculate_entropy                                                       *)
(***************************************************************************)
\* the keys of char_counts, in the order of their first occurrence
RECURSIVE distinct_chars(_)
distinct_chars(data) ==
    IF data = <<>> THEN <<>>
    ELSE LET rest == distinct_chars(SubSeq(data, 1, Len(data) - 1))
             c == data[Len(data)]
         IN  IF c \in Elems(rest) THEN rest ELSE Append(rest, c)

\* char_counts[c]
count_of(data, c) == Cardinality({i \in 1..Len(data) : data[i] = c})

\* char_counts.values()
char_counts(data) ==
    [i \in 1..Len(distinct_chars(data)) |->
        count_of(data, distinct_chars(data)[i])]

\* the loop "for count in char_counts.values()", entropy being the sum so far
RECURSIVE entropy_loop(_, _, _)
entropy_loop(counts, data_len, entropy) ==
    IF counts = <<>> THEN OkNum(entropy)
    ELSE LET probability == TrueDiv(PyInt(Head(counts)), PyInt(data_len))
         IN  IF probability.milli > 0
             THEN IF ~HasBitLength(probability)
                  THEN RaiseNum("AttributeError")
                  ELSE entropy_loop(Tail(counts), data_len,
                           Sub(entropy, Mul(probability,
                               Sub(bit_length(probability), PyInt(1)))))
             ELSE entropy_loop(Tail(counts), data_len, entropy)

calculate_entropy(data) ==
    IF data = <<>> THEN OkNum(PyFloat(0))
    ELSE entropy_loop(char_counts(data), Len(data), PyFloat(0))

(***************************************************************************)
(* validate_strength                                                       *)
(***************************************************************************)
IndexIn(seq, c) == CHOOSE i \in 1..Len(seq) : seq[i] = c

\* str.islower(), str.isupper(), str.isdigit() of one ASCII character
islower(c) == c \in Elems(ascii_lowercase)

isupper(c) == c \in Elems(ascii_uppercase)

isdigit(c) == c \in Elems(string_digits)

\* str.lower()
lower_char(c) ==
    IF isupper(c) THEN ascii_lowercase[IndexIn(ascii_uppercase, c)] ELSE c

lower(s) == [i \in 1..Len(s) |-> lower_char(s[i])]

\* pattern in s
Contains(s, pattern) ==
    \E i \in 1..(Len(s) - Len(pattern) + 1) :
        SubSeq(s, i, i + Len(pattern) - 1) = pattern

common_patterns ==
    << <<"p", "a", "s", "s", "w", "o", "r", "d">>,
       <<"s", "e", "c", "r", "e", "t">>,
       <<"k", "e", "y">>,
       <<"a", "d", "m", "i", "n">>,
       <<"1", "2", "3">>,
       <<"t", "e", "s", "t">>,
       <<"q", "w", "e", "r", "t", "y">> >>

\* the patterns appended to analysis['common_patterns'], in list order
RECURSIVE matched_patterns(_, _)
matched_patterns(patterns, secret_lower) ==
    IF patterns = <<>> THEN <<>>
    ELSE (IF Contains(secret_lower, Head(patterns))
          THEN <<Head(patterns)>> ELSE <<>>)
             \o matched_patterns(Tail(patterns), secret_lower)

\* length scoring
length_score(length) ==
    IF length >= 32 THEN 30
    ELSE IF length >= 24 THEN 25
    ELSE IF length >= 16 THEN 20
    ELSE IF length >= 12 THEN 15
    ELSE IF length >= 8 THEN 10
    ELSE 0

\* character variety scoring: 7.5 per category present
variety_step == PyFloat(7500)

variety_score(has_lowercase, has_uppercase, has_digits, has_special) ==
    LET v0 == PyInt(0)
        v1 == IF has_lowercase THEN Add(v0, variety_step) ELSE v0
        v2 == IF has_uppercase THEN Add(v1, variety_step) ELSE v1
        v3 == IF has_digits THEN Add(v2, variety_step) ELSE v2
    IN  IF has_special THEN Add(v3, variety_step) ELSE v3

\* min(40, (entropy / 6.0) * 40)
entropy_score(entropy) ==
    PyMin(PyInt(40), Mul(TrueDiv(entropy, PyFloat(6 * Milli)), PyInt(40)))

\* the analysis dict before anything is computed
NoReport ==
    [name |-> "secret", length |-> 0, entropy |-> PyFloat(0),
     has_lowercase |-> FALSE, has_uppercase |-> FALSE,
     has_digits |-> FALSE, has_special |-> FALSE,
     common_patterns |-> <<>>,
     strength_score |-> PyInt(0),
     recommendations |-> <<>>]

\* the recommendations, in the order the code appends them
recommendations(an) ==
    (IF an.length < 16
     THEN <<"Increase length to at least 16 characters">> ELSE <<>>)
        \o (IF ~an.has_lowercase THEN <<"Add lowercase letters">> ELSE <<>>)
        \o (IF ~an.has_uppercase THEN <<"Add uppercase letters">> ELSE <<>>)
        \o (IF ~an.has_digits THEN <<"Add numbers">> ELSE <<>>)
        \o (IF ~an.has_special THEN <<"Add special characters">> ELSE <<>>)
        \o (IF an.entropy.milli < 3500
            THEN <<"Increase entropy (add more character variety)">>
            ELSE <<>>)

\* the score before the deduction for common patterns
raw_score(an) ==
    Add(Add(PyInt(length_score(an.length)),
            variety_score(an.has_lowercase, an.has_uppercase,
                          an.has_digits, an.has_special)),
        entropy_score(an.entropy))

\* analysis['strength_score']
strength_score(an) ==
    PyMax(PyInt(0), Sub(raw_score(an), PyInt(Len(an.common_patterns) * 10)))

\* validate_strength(secret): the analysis dict, or the exception that
\* calculate_entropy raises while the dict is being built
validate_strength(secret) ==
    LET e == calculate_entropy(secret)
    IN  IF e.kind = "raise"
        THEN [kind |-> "raise", error |-> e.error, analysis |-> NoReport]
        ELSE LET a0 == [NoReport EXCEPT
                            !.length = Len(secret),
                            !.entropy = e.num,
                            !.has_lowercase = \E c \in Elems(secret) : islower(c),
                            !.has_uppercase = \E c \in Elems(secret) : isupper(c),
                            !.has_digits = \E c \in Elems(secret) : isdigit(c),
                            !.has_special =
                                \E c \in Elems(secret) : c \in Elems(punctuation)]
                 a1 == [a0 EXCEPT !.common_patterns =
                                     matched_patterns(common_patterns,
                                                      lower(secret))]
                 a2 == [a1 EXCEPT !.strength_score = strength_score(a1)]
             IN  [kind |-> "ok", error |-> "none",
                  analysis |-> [a2 EXCEPT
                                   !.recommendations = recommendations(a2)]]

(***************************************************************************)
(* State.                                                                  *)
(***************************************************************************)
NoArgs ==
    [min_length |-> 0, max_length |-> 0,
     require_upper |-> FALSE, require_lower |-> FALSE,
     require_digits |-> FALSE, require_special |-> FALSE,
     exclude_ambiguous |-> FALSE,
     length |-> 0, prefix |-> <<>>,
     charset_is_none |-> FALSE, charset |-> <<>>,
     secret |-> <<>>]

NoLength == -1

Init ==
    /\ pc = "idle"
    /\ op = "none"
    /\ args = NoArgs
    /\ drawn_length = NoLength
    /\ result = NoResult
    /\ report = NoReport

\* the draw of a required character; a category that is not required draws
\* nothing
NoChar == "none"

seed(required, alphabet) == IF required THEN choice(alphabet) ELSE {NoChar}

\* a call of generate_password with any policy and any draws
GeneratePassword ==
    /\ pc = "idle"
    /\ \E mn \in 0..MaxLength, mx \in 0..MaxLength, ex \in BOOLEAN,
          rl \in BOOLEAN, ru \in BOOLEAN, rd \in BOOLEAN, rs \in BOOLEAN :
        LET a == [NoArgs EXCEPT !.min_length = mn, !.max_length = mx,
                                !.require_lower = rl, !.require_upper = ru,
                                !.require_digits = rd, !.require_special = rs,
                                !.exclude_ambiguous = ex]
        IN  \E lo \in seed(rl, lowercase(ex)), up \in seed(ru, uppercase(ex)),
               di \in seed(rd, digits(ex)), sp \in seed(rs, special(ex)) :
              \E below \in IF mx - mn + 1 <= 0 THEN {0}
                           ELSE randbelow(mx - mn + 1) :
                LET r0 == [lower |-> lo, upper |-> up, digit |-> di,
                           special |-> sp, below |-> below,
                           fill |-> <<>>, perm |-> <<>>]
                    n == RangeLen(remaining_length(a, r0))
                    m == Len(required_chars(a, r0)) + n
                IN  \E fill \in [1..n -> choice(all_chars(ex))],
                       perm \in Permutations(1..m) :
                      /\ mx - mn + 1 <= 0 =>
                             /\ fill = [i \in 1..n |-> CHOOSE c \in choice(all_chars(ex)) : TRUE]
                             /\ perm = [i \in 1..m |-> i]
                      /\ args' = a
                      /\ drawn_length' =
                             IF mx - mn + 1 <= 0 THEN NoLength ELSE below + mn
                      /\ result' = generate_password(a,
                             [r0 EXCEPT !.fill = fill, !.perm = perm])
    /\ op' = "generate_password"
    /\ pc' = "done"
    /\ report' = NoReport

\* the outcome of a call that takes a length and yields a str
Called(name, a, outcome) ==
    /\ op' = name
    /\ args' = a
    /\ result' = outcome
    /\ drawn_length' = NoLength
    /\ report' = NoReport
    /\ pc' = "done"

GenerateSecureHex ==
    /\ pc = "idle"
    /\ \E length \in 0..MaxTokenLen :
         \E tok \in token_bytes(hex_nbytes(length)) :
           Called("generate_secure_hex", [NoArgs EXCEPT !.length = length],
                  generate_secure_hex(length, tok))

GenerateSecureBase64 ==
    /\ pc = "idle"
    /\ \E length \in 0..MaxTokenLen :
         \E tok \in token_bytes(length) :
           Called("generate_secure_base64", [NoArgs EXCEPT !.length = length],
                  generate_secure_base64(length, tok))

GenerateJwtSecret ==
    /\ pc = "idle"
    /\ \E length \in 0..MaxTokenLen :
         \E tok \in token_bytes(length) :
           Called("generate_jwt_secret", [NoArgs EXCEPT !.length = length],
                  generate_jwt_secret(length, tok))

GenerateWebhookSecret ==
    /\ pc = "idle"
    /\ \E length \in 0..MaxTokenLen :
         \E tok \in token_bytes(length) :
           Called("generate_webhook_secret", [NoArgs EXCEPT !.length = length],
                  generate_webhook_secret(length, tok))

\* the charsets handed to generate_secure_string: None (charset_is_none),
\* the empty str and a two-letter str
Charsets ==
    {[charset_is_none |-> TRUE, charset |-> <<>>],
     [charset_is_none |-> FALSE, charset |-> <<>>],
     [charset_is_none |-> FALSE, charset |-> <<"a", "Z">>]}

\* the draws of a loop of n iterations over charset; an empty charset
\* yields no draw, the first draw raising
Draws(n, charset) ==
    IF charset = <<>> THEN {<<>>} ELSE [1..RangeLen(n) -> choice(charset)]

GenerateSecureString ==
    /\ pc = "idle"
    /\ \E length \in 0..MaxKeyLen, cs \in Charsets :
         \E draws \in Draws(length,
                       effective_charset(cs.charset_is_none, cs.charset)) :
           Called("generate_secure_string",
                  [NoArgs EXCEPT !.length = length,
                                 !.charset_is_none = cs.charset_is_none,
                                 !.charset = cs.charset],
                  generate_secure_string(length, cs.charset_is_none,
                                         cs.charset, draws))

\* the prefixes handed to generate_api_key
Prefixes == {<<>>, <<"a", "e">>, <<"a", "e", "t", "h", "e", "r">>}

GenerateApiKey ==
    /\ pc = "idle"
    /\ \E length \in 0..MaxKeyLen, prefix \in Prefixes :
         \E draws \in Draws(key_part_length(length, prefix),
                            ascii_letters \o string_digits) :
           Called("generate_api_key",
                  [NoArgs EXCEPT !.length = length, !.prefix = prefix],
                  generate_api_key(length, prefix, draws))

\* the characters of the enumerated secrets
SecretChars == {"k", "e", "y", "K", "1", "2", "3", "!"}

\* secrets analysed beside the enumerated ones
KnownSecrets ==
    { <<"p", "a", "s", "s", "w", "o", "r", "d", "1", "2", "3">>,
      <<"P", "a", "s", "s", "W", "o", "r", "d", "1", "2", "3">>,
      <<"a", "a", "a", "a", "a", "a", "a", "a", "a", "a", "1">>,
      <<"z", "x", "9", "v", "b", "4", "n", "m", "7", "c", "w">>,
      <<"a", "a", "a", "a", "a", "a", "a", "a">>,
      <<"a", "b", "a", "b">>,
      <<"a", "b", "c", "d">>,
      <<"a", "d", "m", "i", "n", "a", "d", "m", "i", "n">> }

Secrets ==
    UNION {[1..n -> SecretChars] : n \in 0..MaxSecretLen} \cup KnownSecrets

CalculateEntropy ==
    /\ pc = "idle"
    /\ \E data \in Secrets :
         LET e == calculate_entropy(data)
         IN  /\ args' = [NoArgs EXCEPT !.secret = data]
             /\ result' = [kind |-> e.kind, value |-> <<>>, error |-> e.error]
             /\ report' = [NoReport EXCEPT !.entropy = e.num]
    /\ op' = "calculate_entropy"
    /\ drawn_length' = NoLength
    /\ pc' = "done"

ValidateStrength ==
    /\ pc = "idle"
    /\ \E secret \in Secrets :
         LET v == validate_strength(secret)
         IN  /\ args' = [NoArgs EXCEPT !.secret = secret]
             /\ result' = [kind |-> v.kind, value |-> <<>>, error |-> v.error]
             /\ report' = v.analysis
    /\ op' = "validate_strength"
    /\ drawn_length' = NoLength
    /\ pc' = "done"

\* the caller takes the outcome; the generator keeps nothing of the call
Return ==
    /\ pc = "done"
    /\ pc' = "idle"
    /\ op' = "none"
    /\ args' = NoArgs
    /\ drawn_length' = NoLength
    /\ result' = NoResult
    /\ report' = NoReport

Next ==
    \/ GeneratePassword
    \/ GenerateSecureHex
    \/ GenerateSecureBase64
    \/ GenerateJwtSecret
    \/ GenerateWebhookSecret
    \/ GenerateSecureString
    \/ GenerateApiKey
    \/ CalculateEntropy
    \/ ValidateStrength
    \/ Return

Spec == Init /\ [][Next]_vars

(***************************************************************************)
(* Properties.                                                             *)
(***************************************************************************)
Returned(name) == pc = "done" /\ op = name

\* the number of required categories of the call
RequiredCount ==
    Cardinality({c \in {"lower", "upper", "digits", "special"} :
        \/ c = "lower" /\ args.require_lower
        \/ c = "upper" /\ args.require_upper
        \/ c = "digits" /\ args.require_digits
        \/ c = "special" /\ args.require_special})

\* s holds a character of the alphabet
HasCharOf(s, alphabet) == Elems(s) \cap Elems(alphabet) # {}

\* C1: for every policy with 0 <= min_length <= max_length and any required
\* categories, generate_password returns a string whose length lies in
\* [min_length, max_length] and which holds a character of every required
\* category, whatever the draws.
C1_LengthAndCategories ==
    (Returned("generate_password")
        /\ 0 <= args.min_length /\ args.min_length <= args.max_length)
    => /\ result.kind = "ok"
       /\ Len(result.value) >= args.min_length
       /\ Len(result.value) <= args.max_length
       /\ args.require_lower
             => HasCharOf(result.value, lowercase(args.exclude_ambiguous))
       /\ args.require_upper
             => HasCharOf(result.value, uppercase(args.exclude_ambiguous))
       /\ args.require_digits
             => HasCharOf(result.value, digits(args.exclude_ambiguous))
       /\ args.require_special
             => HasCharOf(result.value, special(args.exclude_ambiguous))

\* C2: when the length drawn is smaller than the number of required
\* characters already placed, generate_password fails with an error and
\* returns no secret.
C2_PolicyConflict ==
    (Returned("generate_password")
        /\ drawn_length # NoLength /\ drawn_length < RequiredCount)
    => result.kind = "raise"

Ambiguous == {"i", "l", "o", "q", "I", "L", "O", "Q", "0", "1"}

\* C3: with exclude_ambiguous, no character of a returned password is one
\* of i, l, o, q, I, L, O, Q, 0, 1.
C3_NoAmbiguous ==
    (Returned("generate_password") /\ args.exclude_ambiguous
        /\ result.kind = "ok")
    => Elems(result.value) \cap Ambiguous = {}

TokenOps ==
    {"generate_secure_base64", "generate_jwt_secret",
     "generate_webhook_secret", "generate_secure_hex"}

\* C4: generate_secure_base64(n) (also through generate_jwt_secret and
\* generate_webhook_secret) and generate_secure_hex(n) return exactly n
\* characters, whatever bytes are drawn.
C4_ExactTokenLength ==
    (pc = "done" /\ op \in TokenOps)
    => result.kind = "ok" /\ Len(result.value) = args.length

\* C5: generate_api_key(length, prefix) fails whenever
\* len(prefix) >= length; whenever it returns, the key is prefix, '_' and
\* a random part, and its length is the requested length.
C5_ApiKeyBudget ==
    Returned("generate_api_key")
    => /\ Len(args.prefix) >= args.length => result.kind = "raise"
       /\ result.kind = "ok"
             => /\ Len(result.value) = args.length
                /\ Len(result.value) >= Len(args.prefix) + 1
                /\ SubSeq(result.value, 1, Len(args.prefix) + 1)
                       = args.prefix \o <<"_">>

\* log2(k) in thousandths, k = 1 .. 11
Log2Milli ==
    <<0, 1000, 1585, 2000, 2322, 2585, 2807, 3000, 3170, 3322, 3459>>

\* every distinct character of data occurs equally often
EqualFrequency(data) ==
    \A c, d \in Elems(data) : count_of(data, c) = count_of(data, d)

\* C6: calculate_entropy returns a value for every string: 0 for a
\* non-empty string of one repeated character, and log2(k) for a string in
\* which k distinct characters occur equally often.
C6_ShannonEntropy ==
    Returned("calculate_entropy")
    => /\ result.kind = "ok"
       /\ Cardinality(Elems(args.secret)) = 1 => report.entropy.milli = 0
       /\ (args.secret # <<>> /\ EqualFrequency(args.secret))
             => LET k == Cardinality(Elems(args.secret))
                IN  /\ report.entropy.milli >= Log2Milli[k] - 1
                    /\ report.entropy.milli <= Log2Milli[k] + 1

\* C7: for every input string the strength_score of validate_strength is
\* an integer in [0, 100].
C7_ScoreRange ==
    Returned("validate_strength")
    => /\ result.kind = "ok"
       /\ report.strength_score.type = "int"
       /\ report.strength_score.milli >= 0
       /\ report.strength_score.milli <= 100 * Milli

IsPattern(p) == \E i \in 1..Len(common_patterns) : common_patterns[i] = p

InLowered(p) == Contains(lower(args.secret), p)

\* C8: the weak-pattern scan is case-insensitive and records each pattern
\* of the fixed list at most once: common_patterns holds exactly the
\* patterns that are substrings of the lower-cased secret, in list order.
C8_PatternScan ==
    Returned("validate_strength")
    => /\ result.kind = "ok"
       /\ report.common_patterns = SelectSeq(common_patterns, InLowered)

\* the length component as the claim states it
LengthComponent(length) ==
    CASE length >= 32 -> 30
      [] length >= 24 /\ length < 32 -> 25
      [] length >= 16 /\ length < 24 -> 20
      [] length >= 12 /\ length < 16 -> 15
      [] length >= 8 /\ length < 12 -> 10
      [] OTHER -> 0

\* the categories an analysis reports as present
Categories(an) ==
    {c \in {"lower", "upper", "digits", "special"} :
        \/ c = "lower" /\ an.has_lowercase
        \/ c = "upper" /\ an.has_uppercase
        \/ c = "digits" /\ an.has_digits
        \/ c = "special" /\ an.has_special}

\* the composed score of an analysis, in thousandths
ComposedScore(an) ==
    Max(0, LengthComponent(an.length) * Milli
             + 7500 * Cardinality(Categories(an))
             + Min(40 * Milli, (an.entropy.milli * 40) \div 6)
             - 10 * Milli * Len(an.common_patterns))

\* C9: the score is max(0, lengthComponent + compositionComponent
\* + entropyComponent - 10 * matched patterns); with entropy and matched
\* patterns fixed, the score never decreases when the length or the set of
\* present categories grows.
C9_ScoreComposition ==
    Returned("validate_strength")
    => /\ result.kind = "ok"
       /\ report.length = Len(args.secret)
       /\ report.strength_score.milli = ComposedScore(report)
       /\ \A s \in Secrets :
             LET v == validate_strength(s)
             IN  (/\ v.kind = "ok"
                  /\ v.analysis.entropy = report.entropy
                  /\ v.analysis.common_patterns = report.common_patterns
                  /\ v.analysis.length >= report.length
                  /\ Categories(report) \subseteq Categories(v.analysis))
                 => v.analysis.strength_score.milli
                        >= report.strength_score.milli

Password123 == <<"p", "a", "s", "s", "w", "o", "r", "d", "1", "2", "3">>

\* s has the length and the category coverage of "password123" (lowercase
\* and digits only) and matches no weak pattern
PlainPeer(s) ==
    /\ Len(s) = Len(Password123)
    /\ \A c \in Elems(s) : islower(c) \/ isdigit(c)
    /\ \E c \in Elems(s) : islower(c)
    /\ \E c \in Elems(s) : isdigit(c)
    /\ \A i \in 1..Len(common_patterns) :
          ~Contains(lower(s), common_patterns[i])

\* C10: analysing "password123" reports the weak pattern "password" and
\* yields a score strictly lower than that of every string of the same
\* length with the same category coverage that matches no weak pattern.
C10_KnownVector ==
    (Returned("validate_strength") /\ args.secret = Password123)
    => /\ result.kind = "ok"
       /\ \E i \in 1..Len(report.common_patterns) :
             report.common_patterns[i] = common_patterns[1]
       /\ \A s \in {t \in Secrets : PlainPeer(t)} :
             LET v == validate_strength(s)
             IN  /\ v.kind = "ok"
                 /\ v.analysis.strength_score.milli
                        > report.strength_score.milli

\* the advisory texts
RecLength == "Increase length to at least 16 characters"

RecEntropy == "Increase entropy (add more character variety)"

RecCategory ==
    [lower |-> "Add lowercase letters", upper |-> "Add uppercase letters",
     digits |-> "Add numbers", special |-> "Add special characters"]

\* C11: the recommendations depend on fixed thresholds only: 'increase
\* length' is present iff length < 16, each 'add <category>' iff that
\* category is absent, 'increase entropy' iff entropy < 3.5; the list is
\* empty exactly when length >= 16, all four categories are present and
\* entropy >= 3.5.
C11_Recommendations ==
    Returned("validate_strength")
    => /\ result.kind = "ok"
       /\ report.length = Len(args.secret)
       /\ (RecLength \in Elems(report.recommendations))
             <=> (report.length < 16)
       /\ \A c \in {"lower", "upper", "digits", "special"} :
             (RecCategory[c] \in Elems(report.recommendations))
                <=> (c \notin Categories(report))
       /\ (RecEntropy \in Elems(report.recommendations))
             <=> (report.entropy.milli < 3500)
       /\ (report.recommendations = <<>>)
             <=> (/\ report.length >= 16
                  /\ Cardinality(Categories(report)) = 4
                  /\ report.entropy.milli >= 3500)

\* C12: a draw with malformed bounds fails with an error reported to the
\* caller and yields no secret: generate_password with
\* max_length < min_length always fails, whatever the gap and the required
\* categories, and generate_secure_string with an empty charset and
\* length > 0 always fails.
C12_MalformedBoundsFail ==
    /\ (Returned("generate_password") /\ args.max_length < args.min_length)
          => (result.kind = "raise" /\ result.value = <<>>)
    /\ (Returned("generate_secure_string") /\ ~args.charset_is_none
            /\ args.charset = <<>> /\ args.length > 0)
          => (result.kind = "raise" /\ result.value = <<>>)

\* generate_password called with max_length one below min_length and all
\* four categories required has raised ValueError
C12_Witness ==
    /\ Returned("generate_password")
    /\ args.max_length = args.min_length - 1
    /\ RequiredCount = 4
    /\ result.kind = "raise"
    /\ result.error = "ValueError"

\* the analyzer puts every character of the generator's four alphabets,
\* with and without exclude_ambiguous, into the category it is drawn from
SameClassification ==
    \A ex \in BOOLEAN :
        /\ \A c \in Elems(lowercase(ex)) : islower(c)
        /\ \A c \in Elems(uppercase(ex)) : isupper(c)
        /\ \A c \in Elems(digits(ex)) : isdigit(c)
        /\ \A c \in Elems(special(ex)) : c \in Elems(punctuation)

\* C13: the two engines agree on category membership: for every password
\* returned by generate_password, validate_strength reports has_lowercase,
\* has_uppercase, has_digits, has_special as true for each required
\* category, and every character the generator can emit is classified by
\* the analyzer into the category it was drawn from.
C13_CategoryAgreement ==
    (Returned("generate_password") /\ result.kind = "ok")
    => LET v == validate_strength(result.value)
       IN  /\ SameClassification
           /\ v.kind = "ok"
           /\ args.require_lower => v.analysis.has_lowercase
           /\ args.require_upper => v.analysis.has_uppercase
           /\ args.require_digits => v.analysis.has_digits
           /\ args.require_special => v.analysis.has_special

\* C14: whenever generate_password returns, the shuffle only permutes the
\* buffer: the result has exactly max(L, r) characters, L being the length
\* drawn and r the number of required categories, and every character of
\* the result belongs to the union of the four alphabets of the call.
C14_LengthAndAlphabet ==
    (Returned("generate_password") /\ result.kind = "ok")
    => /\ Len(result.value) = Max(drawn_length, RequiredCount)
       /\ Elems(result.value)
             \subseteq Elems(all_chars(args.exclude_ambiguous))

\* a password returned with three required categories and a drawn length
\* of 1: the three seeded characters, shuffled
C14_Witness ==
    /\ Returned("generate_password")
    /\ result.kind = "ok"
    /\ RequiredCount = 3
    /\ drawn_length = 1
    /\ Len(result.value) = 3
    /\ result.value[1] \in Elems(special(args.exclude_ambiguous))
    /\ args.require_lower

====
